---- MODULE Spec2Model ----
(***************************************************************************)
(* Model of the font subsystem of package gfx (font.go): the process-wide  *)
(* font cache fontMap, the atlas builder LoadFontTexture, the text mesh    *)
(* generator FontInfo.MapString and FontInfo.CalcStringDims, over a model  *)
(* of the font files on disk, the glyph rasterizer and the GL device; and  *)
(* of BufferObject.BufferData / BufferSubData (framebuffer.go) and the     *)
(* Program.UploadUniform functions (program.go) over the device's buffers  *)
(* and programs.                                                           *)
(*                                                                         *)
(* Numbers.  A float32/float64 value v is represented by the integer       *)
(* v * FloatOne (FloatOne = 128): every float the code computes from the   *)
(* modelled inputs is a multiple of 1/128 small enough to be exact in      *)
(* float32.  A fixed.Int26_6 value is represented by its raw integer       *)
(* (1/64 units).  int32 values are plain integers (no value of the model   *)
(* comes near 2^31).  uint32 values of BufferObject are pairs of 16-bit    *)
(* halves, added and compared at their 32-bit width.                       *)
(***************************************************************************)
EXTENDS Integers, Sequences, FiniteSets, TLC

\* ------------------------------------------------------------ bounds
\* LoadFontTexture calls in one run
MaxCalls == 3
\* period of the glyph pattern of a loadable font file
PatLen == 2
\* longest text handed to MapString / CalcStringDims
MaxStrLen == 2
\* longest data slice handed to the UploadUniform functions
MaxData == 5

\* ------------------------------------------------- program constants
minASCII == 32
\* unicode.MaxASCII
MaxASCII == 127

AlignAbove == 0 - 1
AlignMiddle == 0
AlignBelow == 1
AlignLeft == 0 - 1
AlignCenter == 0
AlignRight == 1

\* gl enums, by name
GL_RED == "RED"
GL_NEAREST == "NEAREST"
GL_TEXTURE_MIN_FILTER == "MIN_FILTER"
GL_TEXTURE_MAG_FILTER == "MAG_FILTER"

\* ------------------------------------------------------ float model
\* the representation of 1.0
FloatOne == 2 * 64
\* float32(i) of an integer i
ToFloat(i) == i * FloatOne
\* int32(f) of a float f: Go truncates toward zero
ToInt32(f) == IF f >= 0 THEN f \div FloatOne ELSE 0 - ((0 - f) \div FloatOne)
\* math.Round: nearest integer, halves away from zero
MathRound(f) ==
    IF f >= 0 THEN ((f + FloatOne \div 2) \div FloatOne) * FloatOne
    ELSE 0 - ((((0 - f) + FloatOne \div 2) \div FloatOne) * FloatOne)
\* math.Ceil
MathCeil(f) == 0 - (((0 - f) \div FloatOne) * FloatOne)
\* fixed.Int26_6.Ceil: (x + 0x3f) >> 6
Ceil26_6(x) == (x + 63) \div 64
\* int26_6ToFloat32: float32(x >> 6) + float32(x & 0x3F) / 64.0
int26_6ToFloat32(x) ==
    LET top == ToFloat(x \div 64)
        bottom == ToFloat(x % 64) \div 64
    IN top + bottom

\* ------------------------------------------- font files and rasterizer
\* What the rasterizer reports for one glyph at size 1: the rounded
\* rectangle's Dx, Dy, the accurate rectangle's Min.X and Max.Y and the
\* advance (Int26_6).
ShapeSpace == [dx |-> 0, dy |-> 0, minX |-> 0, maxY |-> 0, advance |-> 160]
ShapeNormal == [dx |-> 2, dy |-> 3, minX |-> 40, maxY |-> 150, advance |-> 224]
ShapeItalic == [dx |-> 4, dy |-> 2, minX |-> 0 - 70, maxY |-> 100, advance |-> 130]
ShapeFlush == [dx |-> 3, dy |-> 1, minX |-> 0, maxY |-> 64, advance |-> 192]
GlyphShapes == {ShapeSpace, ShapeNormal, ShapeItalic, ShapeFlush}

\* face metrics at size 1 (Int26_6)
FaceMetrics1 ==
    [Height |-> 300, Ascent |-> 200, Descent |-> 70, XHeight |-> 90,
     CapHeight |-> 140, CaretSlope |-> <<0, 1>>]

FontNames ==
    {"none.ttf", "junk.ttf", "half.ttf", "gap.ttf", "nob.ttf", "noface.ttf", "a.ttf", "b.ttf"}
FontSizes == {1, 2}

\* A font file: whether ioutil.ReadFile, truetype.Parse, sfnt.Parse and
\* opentype.NewFace succeed on it, the codes face.Glyph has no glyph for,
\* the codes face.GlyphBounds has no bounds for, the stride of the face's
\* glyph masks, and its glyph shapes, repeated with period Len(pattern)
\* over the character codes.
FontFile(readable, ttf, sfn, face, missing, unbounded, stride, pattern) ==
    [readable |-> readable, ttf |-> ttf, sfnt |-> sfn, face |-> face,
     missing |-> missing, unbounded |-> unbounded, stride |-> stride,
     pattern |-> pattern]

Rotate(s) == IF Len(s) = 0 THEN s ELSE Append(Tail(s), Head(s))

\* The disks of the model: one pattern p decides the loadable fonts.
Disk(p) ==
    [n \in FontNames |->
        CASE n = "none.ttf" -> FontFile(FALSE, FALSE, FALSE, FALSE, {}, {}, 4, p)
          [] n = "junk.ttf" -> FontFile(TRUE, FALSE, FALSE, FALSE, {}, {}, 4, p)
          [] n = "half.ttf" -> FontFile(TRUE, TRUE, FALSE, FALSE, {}, {}, 4, p)
          [] n = "gap.ttf" -> FontFile(TRUE, TRUE, TRUE, TRUE, {64}, {}, 4, p)
          [] n = "nob.ttf" -> FontFile(TRUE, TRUE, TRUE, TRUE, {}, {35}, 4, p)
          [] n = "noface.ttf" -> FontFile(TRUE, TRUE, TRUE, FALSE, {}, {}, 4, p)
          [] n = "a.ttf" -> FontFile(TRUE, TRUE, TRUE, TRUE, {}, {}, 4, p)
          [] OTHER -> FontFile(TRUE, TRUE, TRUE, TRUE, {}, {}, 5, Rotate(p))]

Patterns == [1..PatLen -> GlyphShapes]

\* face.Glyph(dot, c) and face.GlyphBounds(c) of a face of file f at fontSize
FaceGlyph(f, fontSize, c) ==
    LET s == f.pattern[((c - minASCII) % Len(f.pattern)) + 1]
    IN [ok |-> c \notin f.missing, okBounds |-> c \notin f.unbounded,
        okCast |-> TRUE,
        dx |-> s.dx * fontSize, dy |-> s.dy * fontSize,
        minX |-> s.minX * fontSize, maxY |-> s.maxY * fontSize,
        advance |-> s.advance * fontSize,
        stride |-> f.stride * fontSize]

\* otfFace.Metrics()
FaceMetrics(f, fontSize) ==
    [Height |-> FaceMetrics1.Height * fontSize,
     Ascent |-> FaceMetrics1.Ascent * fontSize,
     Descent |-> FaceMetrics1.Descent * fontSize,
     XHeight |-> FaceMetrics1.XHeight * fontSize,
     CapHeight |-> FaceMetrics1.CapHeight * fontSize,
     CaretSlope |-> FaceMetrics1.CaretSlope]

\* ------------------------------------------------------- GL device
\* The device: the textures it holds (a texture's id is its index), the
\* texture bound to TEXTURE_2D, the unpack alignment, and the number of
\* gl calls made so far.
NoDevice == [textures |-> <<>>, bound |-> 0, unpackAlignment |-> 4, ops |-> 0]

\* NewTexture: GenTextures, Bind, PixelStorei, TexImage2D, GenerateMipmap,
\* Unbind; the returned error is always nil.
NewTexture(dv, width, height, data, format, alignment, texelSize) ==
    LET id == Len(dv.textures) + 1
        t == [id |-> id, width |-> width, height |-> height, format |-> format,
              alignment |-> alignment, texelSize |-> texelSize]
        obj == [width |-> width, height |-> height, format |-> format,
                nbytes |-> data, mipmap |-> TRUE,
                minFilter |-> "NEAREST_MIPMAP_LINEAR", magFilter |-> "LINEAR"]
    IN [t |-> t, err |-> "nil",
        dev |-> [textures |-> Append(dv.textures, obj), bound |-> 0,
                 unpackAlignment |-> alignment, ops |-> dv.ops + 6]]

\* Texture.SetParameter: Bind, TexParameteri, Unbind
SetParameter(dv, t, paramName, param) ==
    [dv EXCEPT !.bound = 0, !.ops = @ + 3,
               !.textures[t.id] =
                   IF paramName = GL_TEXTURE_MIN_FILTER THEN [@ EXCEPT !.minFilter = param]
                   ELSE IF paramName = GL_TEXTURE_MAG_FILTER THEN [@ EXCEPT !.magFilter = param]
                   ELSE @]

\* ---------------------------------------------------- atlas builder
NoTexture == [id |-> 0, width |-> 0, height |-> 0, format |-> "", alignment |-> 0,
              texelSize |-> 0]
NoMetrics == [Height |-> 0, Ascent |-> 0, Descent |-> 0, XHeight |-> 0,
              CapHeight |-> 0, CaretSlope |-> <<0, 0>>]
\* the nil *FontInfo
NoFont == [texture |-> NoTexture, runeMap |-> <<>>, metrics |-> NoMetrics]

\* RuneInfo with the row taken after the glyph's rows were appended
RuneInfoRowAfter(currentIndex, g) ==
    [row |-> currentIndex + g.dy,
     width |-> g.dx,
     height |-> g.dy,
     bearingX |-> MathRound(ToFloat(Ceil26_6(g.minX))),
     bearingY |-> ToFloat(Ceil26_6(g.maxY)),
     advance |-> MathRound(int26_6ToFloat32(g.advance))]

\* the runeInfo literal of the glyph loop
RuneInfo(currentIndex, g) ==
    [row |-> currentIndex,
     width |-> g.dx,
     height |-> g.dy,
     bearingX |-> MathRound(ToFloat(Ceil26_6(g.minX))),
     bearingY |-> ToFloat(Ceil26_6(g.maxY)),
     advance |-> MathRound(int26_6ToFloat32(g.advance))]

\* RowLoop with currentIndex++ once per glyph instead of once per row
RowLoopOncePerGlyph(acc, g) ==
    [acc EXCEPT !.nbytes = @ + (IF g.dy > 0 THEN g.dy * g.stride ELSE 0),
                !.currentIndex = @ + 1]

\* the row loop of one glyph: Dy rows appended, currentIndex++ per row
RowLoop(acc, g) ==
    [acc EXCEPT !.nbytes = @ + (IF g.dy > 0 THEN g.dy * g.stride ELSE 0),
                !.currentIndex = @ + (IF g.dy > 0 THEN g.dy ELSE 0)]

\* one iteration of the glyph loop, for character code i; acc holds
\* runeMap, the length of glyphBytes, currentIndex, the face.Glyph calls
\* made and the error the loop returned with
GlyphStep(f, fontSize, i, acc) ==
    IF acc.err # "nil" THEN acc
    ELSE LET g == FaceGlyph(f, fontSize, i)
             called == [acc EXCEPT !.glyphs = @ + 1]
         IN IF ~g.ok THEN [called EXCEPT !.err = "ErrNoFontGlyph"]
            ELSE IF ~g.okBounds \/ ~g.okCast THEN [called EXCEPT !.err = "ErrNoFontGlyph"]
            ELSE RowLoop([called EXCEPT !.runeMap =
                              Append(@, RuneInfo(acc.currentIndex, g))], g)

\* for i := lo; i < hi; i++ { ... }, the iterations in ascending order
\* (evaluated by halves to keep the evaluation shallow)
RECURSIVE GlyphLoop(_, _, _, _, _)
GlyphLoop(f, fontSize, lo, hi, acc) ==
    IF lo >= hi \/ acc.err # "nil" THEN acc
    ELSE IF hi - lo = 1 THEN GlyphStep(f, fontSize, lo, acc)
    ELSE LET mid == lo + ((hi - lo) \div 2)
         IN GlyphLoop(f, fontSize, mid, hi, GlyphLoop(f, fontSize, lo, mid, acc))

\* otfMetrics converted by int26_6ToFloat32
Metrics(m) ==
    [Height |-> int26_6ToFloat32(m.Height),
     Ascent |-> int26_6ToFloat32(m.Ascent),
     Descent |-> int26_6ToFloat32(m.Descent),
     XHeight |-> int26_6ToFloat32(m.XHeight),
     CapHeight |-> int26_6ToFloat32(m.CapHeight),
     CaretSlope |-> m.CaretSlope]

\* LoadFontTexture after the cache miss, up to the FontInfo literal: the
\* error, the FontInfo, the device afterwards, and the numbers of
\* ReadFile and face.Glyph calls made.
BuildAtlas(dsk, dv, fontName, fontSize) ==
    LET f == dsk[fontName]
        out(e, info, d, reads, glyphs) ==
            [err |-> e, info |-> info, dev |-> d, reads |-> reads, glyphs |-> glyphs]
    IN IF ~f.readable THEN out("ReadFile", NoFont, dv, 1, 0)
       ELSE IF ~f.ttf THEN out("truetype.Parse", NoFont, dv, 1, 0)
       ELSE IF ~f.sfnt THEN out("sfnt.Parse", NoFont, dv, 2, 0)
       ELSE LET loop == GlyphLoop(f, fontSize, minASCII, MaxASCII,
                            [runeMap |-> <<>>, nbytes |-> 0, currentIndex |-> 0,
                             glyphs |-> 0, err |-> "nil"])
            IN IF loop.err # "nil" THEN out(loop.err, NoFont, dv, 2, loop.glyphs)
               ELSE LET glyph == FaceGlyph(f, fontSize, 65)
                    IN IF ~glyph.ok
                       THEN out("ErrNoFontGlyph", NoFont, dv, 2, loop.glyphs + 1)
                       ELSE LET texWidth == glyph.stride
                                texHeight == loop.nbytes \div glyph.stride
                                nt == NewTexture(dv, texWidth, texHeight, loop.nbytes,
                                                 GL_RED, 1, 1)
                            IN IF nt.err # "nil"
                               THEN out(nt.err, NoFont, nt.dev, 2, loop.glyphs + 1)
                               ELSE LET d1 == SetParameter(nt.dev, nt.t,
                                                  GL_TEXTURE_MIN_FILTER, GL_NEAREST)
                                        d2 == SetParameter(d1, nt.t,
                                                  GL_TEXTURE_MAG_FILTER, GL_NEAREST)
                                    IN IF ~f.face
                                       THEN out("opentype.NewFace", NoFont, d2, 2,
                                                loop.glyphs + 1)
                                       ELSE out("nil",
                                                [texture |-> nt.t,
                                                 runeMap |-> loop.runeMap,
                                                 metrics |-> Metrics(FaceMetrics(f, fontSize))],
                                                d2, 2, loop.glyphs + 1)

\* ------------------------------------------------------- font cache
fontKey(fontName, fontSize) == [fontName |-> fontName, fontSize |-> fontSize]
AllKeys == {fontKey(n, s) : n \in FontNames, s \in FontSizes}

\* the nil map
NilMap == [isNil |-> TRUE, m |-> <<>>]
\* CacheInit without the nil test: a fresh map on every call
CacheInitAlways(fm) == [isNil |-> FALSE, m |-> <<>>]
\* if fontMap == nil { fontMap = make(map[fontKey]FontInfo) }
CacheInit(fm) == IF fm.isNil THEN [isNil |-> FALSE, m |-> <<>>] ELSE fm
\* CacheLookup that never finds the key
CacheLookupMiss(fm, key) == [ok |-> FALSE, val |-> NoFont]
\* val, ok := fontMap[key]
CacheLookup(fm, key) ==
    IF key \in DOMAIN fm.m THEN [ok |-> TRUE, val |-> fm.m[key]]
    ELSE [ok |-> FALSE, val |-> NoFont]
\* CacheStore into a fresh map: the other entries are lost
CacheStoreAlone(fm, key, info) == [fm EXCEPT !.m = [k \in {key} |-> info]]
\* CacheStore that forgets the assignment
CacheStoreDropped(fm, key, info) == fm
\* fontMap[key] = InfoLoaded
CacheStore(fm, key, info) ==
    [fm EXCEPT !.m = [k \in DOMAIN fm.m \cup {key} |-> IF k = key THEN info ELSE fm.m[k]]]

\* --------------------------------------------------- text functions
\* whether font.runeMap[r-minASCII] is inside the slice
IndexOK(font, r) == r - minASCII >= 0 /\ r - minASCII < Len(font.runeMap)
\* font.runeMap[r-minASCII]
RuneAt(font, r) == font.runeMap[(r - minASCII) + 1]

\* for _, r := range str { strWidth += info.advance }
RECURSIVE AdvanceLoop(_, _, _)
AdvanceLoop(font, str, strWidth) ==
    IF str = <<>> THEN strWidth
    ELSE AdvanceLoop(font, Tail(str), strWidth + RuneAt(font, Head(str)).advance)

\* adjust strWidth if last rune's width + bearingX > advance
LastRuneAdjust(font, str, strWidth) ==
    LET lastInfo == RuneAt(font, str[Len(str)])
    IN IF ToFloat(lastInfo.width) + lastInfo.bearingX > lastInfo.advance
       THEN strWidth + (ToFloat(lastInfo.width) + lastInfo.bearingX - lastInfo.advance)
       ELSE strWidth

\* OffX with the whole width in place of the half width
OffXWholeWidth(strWidth, align) ==
    ToInt32((0 - strWidth) - align.H * strWidth)

\* offx := int32(-w2 - float64(align.H)*w2)
OffX(strWidth, align) ==
    LET w2 == strWidth \div 2
    IN ToInt32((0 - w2) - align.H * w2)

\* OffY without the rounding up of the ascent and the descent
OffYNoCeil(font, align) ==
    CASE align.V = AlignBelow -> 0 - font.metrics.Ascent
      [] align.V = AlignMiddle -> (0 - font.metrics.XHeight) \div 2
      [] align.V = AlignAbove -> font.metrics.Descent
      [] OTHER -> 0

\* the switch on align.V
OffY(font, align) ==
    CASE align.V = AlignBelow -> 0 - MathCeil(font.metrics.Ascent)
      [] align.V = AlignMiddle -> (0 - font.metrics.XHeight) \div 2
      [] align.V = AlignAbove -> MathCeil(font.metrics.Descent)
      [] OTHER -> 0

\* origin := pointF32{float32(pos.X + offx), float32(pos.Y) + offy}
Origin(pos, offx, offy) == [x |-> ToFloat(pos.X + offx), y |-> ToFloat(pos.Y) + offy]

\* Triangles emitting the quad's four corners once each
TrianglesFourCorners(origin, info) ==
    LET posTL == [x |-> origin.x + info.bearingX,
                  y |-> origin.y + (ToFloat(info.height) - info.bearingY)]
        posTR == [x |-> posTL.x + ToFloat(info.width), y |-> posTL.y]
        posBL == [x |-> posTL.x, y |-> origin.y - info.bearingY]
        posBR == [x |-> posTR.x, y |-> posBL.y]
        texTL == [x |-> 0, y |-> ToFloat(info.row)]
        texTR == [x |-> ToFloat(info.width), y |-> texTL.y]
        texBL == [x |-> texTL.x, y |-> texTL.y + ToFloat(info.height)]
        texBR == [x |-> texTR.x, y |-> texBL.y]
    IN << posBL.x, posBL.y, texBL.x, texBL.y,
          posTL.x, posTL.y, texTL.x, texTL.y,
          posTR.x, posTR.y, texTR.x, texTR.y,
          posBR.x, posBR.y, texBR.x, texBR.y >>

\* the two triangles of one rune
Triangles(origin, info) ==
    LET posTL == [x |-> origin.x + info.bearingX,
                  y |-> origin.y + (ToFloat(info.height) - info.bearingY)]
        posTR == [x |-> posTL.x + ToFloat(info.width), y |-> posTL.y]
        posBL == [x |-> posTL.x, y |-> origin.y - info.bearingY]
        posBR == [x |-> posTR.x, y |-> posBL.y]
        texTL == [x |-> 0, y |-> ToFloat(info.row)]
        texTR == [x |-> ToFloat(info.width), y |-> texTL.y]
        texBL == [x |-> texTL.x, y |-> texTL.y + ToFloat(info.height)]
        texBR == [x |-> texTR.x, y |-> texBL.y]
    IN << posBL.x, posBL.y, texBL.x, texBL.y,
          posTL.x, posTL.y, texTL.x, texTL.y,
          posTR.x, posTR.y, texTR.x, texTR.y,
          posBL.x, posBL.y, texBL.x, texBL.y,
          posTR.x, posTR.y, texTR.x, texTR.y,
          posBR.x, posBR.y, texBR.x, texBR.y >>

\* RuneLoop without origin.x += info.advance
RECURSIVE RuneLoopNoAdvance(_, _, _, _)
RuneLoopNoAdvance(font, str, origin, buffer) ==
    IF str = <<>> THEN buffer
    ELSE LET info == RuneAt(font, Head(str))
         IN RuneLoopNoAdvance(font, Tail(str), origin, buffer \o Triangles(origin, info))

\* for _, r := range str { buffer = append(buffer, triangles...); origin.x += info.advance }
RECURSIVE RuneLoop(_, _, _, _)
RuneLoop(font, str, origin, buffer) ==
    IF str = <<>> THEN buffer
    ELSE LET info == RuneAt(font, Head(str))
         IN RuneLoop(font, Tail(str), [origin EXCEPT !.x = @ + info.advance],
                     buffer \o Triangles(origin, info))

\* MapString returning an empty mesh for the empty text
MapStringEmptyOK(font, str, pos, align) ==
    IF \E i \in 1..Len(str) : ~IndexOK(font, str[i]) THEN [panic |-> TRUE, buffer |-> <<>>]
    ELSE IF Len(str) = 0 THEN [panic |-> FALSE, buffer |-> <<>>]
    ELSE LET strWidth == LastRuneAdjust(font, str, AdvanceLoop(font, str, 0))
             origin == Origin(pos, OffX(strWidth, align), OffY(font, align))
         IN [panic |-> FALSE, buffer |-> RuneLoop(font, str, origin, <<>>)]

\* FontInfo.MapString; panic is Go's index-out-of-range run-time panic
MapString(font, str, pos, align) ==
    IF \E i \in 1..Len(str) : ~IndexOK(font, str[i]) THEN [panic |-> TRUE, buffer |-> <<>>]
    ELSE IF Len(str) = 0 THEN [panic |-> TRUE, buffer |-> <<>>]
    ELSE LET strWidth == LastRuneAdjust(font, str, AdvanceLoop(font, str, 0))
             origin == Origin(pos, OffX(strWidth, align), OffY(font, align))
         IN [panic |-> FALSE, buffer |-> RuneLoop(font, str, origin, <<>>)]

\* the loop of CalcStringDims: strWidth and largestBearingY
RECURSIVE DimsLoop(_, _, _)
DimsLoop(font, str, acc) ==
    IF str = <<>> THEN acc
    ELSE LET info == RuneAt(font, Head(str))
         IN DimsLoop(font, Tail(str),
                [strWidth |-> acc.strWidth + info.advance,
                 largestBearingY |-> IF info.bearingY > acc.largestBearingY
                                     THEN info.bearingY ELSE acc.largestBearingY])

\* CalcStringDims without the adjustment for the last rune
CalcStringDimsNoAdjust(font, str) ==
    IF \E i \in 1..Len(str) : ~IndexOK(font, str[i])
    THEN [panic |-> TRUE, width |-> 0, height |-> 0]
    ELSE IF Len(str) = 0 THEN [panic |-> TRUE, width |-> 0, height |-> 0]
    ELSE LET acc == DimsLoop(font, str, [strWidth |-> 0, largestBearingY |-> 0])
         IN [panic |-> FALSE, width |-> acc.strWidth, height |-> font.metrics.Height]

\* FontInfo.CalcStringDims
CalcStringDims(font, str) ==
    IF \E i \in 1..Len(str) : ~IndexOK(font, str[i])
    THEN [panic |-> TRUE, width |-> 0, height |-> 0]
    ELSE IF Len(str) = 0 THEN [panic |-> TRUE, width |-> 0, height |-> 0]
    ELSE LET acc == DimsLoop(font, str, [strWidth |-> 0, largestBearingY |-> 0])
             lastInfo == RuneAt(font, str[Len(str)])
             strWidth ==
                 IF ToFloat(lastInfo.width) + lastInfo.bearingX > lastInfo.advance
                 THEN acc.strWidth
                      + (ToFloat(lastInfo.width) + lastInfo.bearingX - lastInfo.advance)
                 ELSE acc.strWidth
         IN [panic |-> FALSE, width |-> strWidth, height |-> font.metrics.Height]

\* ------------------------------------------- uint32 (framebuffer.go)
\* A uint32 is held as its two 16-bit halves, so that sums are computed
\* with their 32-bit wrap-around and compared at their full width.
Half == 2 ^ 16
U32(hi, lo) == [hi |-> hi, lo |-> lo]
\* the uint32 of a number below 2^31
U32Of(n) == U32(n \div Half, n % Half)
\* math.MaxUint32
MaxUint32 == U32(Half - 1, Half - 1)
\* a + b in uint32: the sum modulo 2^32
Add32(a, b) ==
    LET lo == a.lo + b.lo
        hi == a.hi + b.hi + (lo \div Half)
    IN U32(hi % Half, lo % Half)
\* a > b in uint32
Gt32(a, b) == a.hi > b.hi \/ (a.hi = b.hi /\ a.lo > b.lo)
\* int(a) + int(b) > int(c) in the device's 64-bit sizes
GtSum64(a, b, c) ==
    LET lo == a.lo + b.lo
        hi == a.hi + b.hi + (lo \div Half)
    IN hi > c.hi \/ (hi = c.hi /\ (lo % Half) > c.lo)

\* ------------------------------------- GL buffers and programs (device)
GL_ARRAY_BUFFER == "ARRAY_BUFFER"
GL_ELEMENT_ARRAY_BUFFER == "ELEMENT_ARRAY_BUFFER"
Targets == {GL_ARRAY_BUFFER, GL_ELEMENT_ARRAY_BUFFER}
\* the programs NewProgram has linked, by id
Programs == {1, 2}
\* the active uniforms of every program, and names that are not
UniformNames == {"color", "nope"}
NoWrite == [offset |-> U32Of(0), sizeBytes |-> U32Of(0), whole |-> FALSE]
NoValue == [kind |-> "", data |-> <<>>]

\* The device's buffers and programs: the buffer bound to each target,
\* the data store of the buffer object (its size and the last range
\* written into it), the error flag, the current program and the value of
\* each program's uniform.
NoGL ==
    [bufferBinding |-> [t \in Targets |-> 0],
     store |-> [size |-> U32Of(0), lastWrite |-> NoWrite],
     glError |-> "NO_ERROR",
     currentProgram |-> 0,
     uniforms |-> [p \in Programs |-> NoValue]]

\* gl.BindBuffer(target, id)
glBindBuffer(g, target, id) == [g EXCEPT !.bufferBinding[target] = id]
\* gl.BufferData(target, size, ptr, usage): a new data store of that size
glBufferData(g, target, size) ==
    IF g.bufferBinding[target] = 0 THEN [g EXCEPT !.glError = "INVALID_OPERATION"]
    ELSE [g EXCEPT !.store = [size |-> size,
                              lastWrite |-> [offset |-> U32Of(0), sizeBytes |-> size,
                                             whole |-> TRUE]]]
\* gl.BufferSubData(target, offset, size, ptr): INVALID_VALUE and no write
\* when offset + size extends beyond the data store
glBufferSubData(g, target, offset, size) ==
    IF g.bufferBinding[target] = 0 THEN [g EXCEPT !.glError = "INVALID_OPERATION"]
    ELSE IF GtSum64(offset, size, g.store.size) THEN [g EXCEPT !.glError = "INVALID_VALUE"]
    ELSE [g EXCEPT !.store.lastWrite = [offset |-> offset, sizeBytes |-> size,
                                        whole |-> FALSE]]
\* gl.GetUniformLocation(program, name): -1 for a name that is no active uniform
glGetUniformLocation(g, program, name) == IF name = "color" THEN 0 ELSE 0 - 1
\* gl.UseProgram(program)
glUseProgram(g, program) == [g EXCEPT !.currentProgram = program]
\* gl.Uniform{1,2,3,4}{f,i,uiEXT}(location, data...): on the current program
glUniform(g, location, kind, data) ==
    IF g.currentProgram = 0 THEN [g EXCEPT !.glError = "INVALID_OPERATION"]
    ELSE [g EXCEPT !.uniforms[g.currentProgram] = [kind |-> kind, data |-> data]]

\* ----------------------------------------- BufferObject (framebuffer.go)
\* NewBufferObject: gl.GenBuffers gives the id, sizeBytes = 0
NewBufferObject == [id |-> 1, sizeBytes |-> U32Of(0)]

\* BufferObject.BufferData: the object and the device afterwards, and the
\* gl calls made
BufferData(b, g, target, sizeBytes) ==
    LET b1 == [b EXCEPT !.sizeBytes = sizeBytes]
        g1 == glBindBuffer(g, target, b1.id)
        g2 == glBufferData(g1, target, sizeBytes)
        g3 == glBindBuffer(g2, target, 0)
    IN [bo |-> b1, gl |-> g3, err |-> "nil",
        glcalls |-> <<"BindBuffer", "BufferData", "BindBuffer">>]

\* BufferObject.BufferSubData
BufferSubData(b, g, target, offset, sizeBytes) ==
    IF Gt32(Add32(offset, sizeBytes), b.sizeBytes)
    THEN [bo |-> b, gl |-> g, err |-> "ErrOutOfBounds", glcalls |-> <<>>]
    ELSE LET g1 == glBindBuffer(g, target, b.id)
             g2 == glBufferSubData(g1, target, offset, sizeBytes)
             g3 == glBindBuffer(g2, target, 0)
         IN [bo |-> b, gl |-> g3, err |-> "nil",
             glcalls |-> <<"BindBuffer", "BufferSubData", "BindBuffer">>]

\* ------------------------------------------------ Program (program.go)
\* the body the three UploadUniform functions share, kind naming the gl
\* function family (Uniform*f, Uniform*i, Uniform*uiEXT)
Upload(g, p, uniformName, data, kind) ==
    LET uniformID == glGetUniformLocation(g, p.id, uniformName)
    IN IF uniformID = 0 - 1
       THEN [gl |-> g, err |-> "ErrInvalidName", glcalls |-> <<"GetUniformLocation">>]
       ELSE LET g1 == glUseProgram(g, p.id)
            IN IF Len(data) \in 1..4
               THEN [gl |-> glUseProgram(glUniform(g1, uniformID, kind, data), 0),
                     err |-> "nil",
                     glcalls |-> <<"GetUniformLocation", "UseProgram", "Uniform",
                                   "UseProgram">>]
               ELSE [gl |-> g1, err |-> "ErrInvalidNumberArgs",
                     glcalls |-> <<"GetUniformLocation", "UseProgram">>]
\* Program.UploadUniform
UploadUniform(g, p, uniformName, data) == Upload(g, p, uniformName, data, "f")
\* Program.UploadUniformi
UploadUniformi(g, p, uniformName, data) == Upload(g, p, uniformName, data, "i")
\* Program.UploadUniformui
UploadUniformui(g, p, uniformName, data) == Upload(g, p, uniformName, data, "ui")

\* ------------------------------------------------------------ state
VARIABLES
    disk,     \* the font files: font name -> FontFile
    fontMap,  \* var fontMap map[fontKey]FontInfo
    dev,      \* the GL device
    builds,   \* history: key -> number of completed builds (FontInfo literal reached)
    first,    \* history: key -> the FontInfo of the first successful call, or NoFont
    ncalls,   \* history: LoadFontTexture calls started
    call,     \* the sequential caller's call in progress with its results
    procs,    \* concurrent callers: goroutine -> frame of its LoadFontTexture call
    bo,       \* the BufferObject: id, sizeBytes
    gl,       \* the GL device's buffers and programs
    res       \* the BufferObject / Program call last made, with its results

vars == <<disk, fontMap, dev, builds, first, ncalls, call, procs, bo, gl, res>>

\* no BufferObject or Program call made yet
NoResult ==
    [op |-> "none", target |-> "", offset |-> U32Of(0), sizeBytes |-> U32Of(0),
     program |-> 0, uniformName |-> "", data |-> <<>>, err |-> "nil", glcalls |-> <<>>]

Goroutines == {1, 2}

NoCall ==
    [op |-> "none", fontName |-> "", fontSize |-> 0, str |-> <<>>,
     pos |-> [X |-> 0, Y |-> 0], align |-> [V |-> 0, H |-> 0],
     hit |-> FALSE, err |-> "nil", ret |-> NoFont, reads |-> 0, glyphs |-> 0,
     panic |-> FALSE, buffer |-> <<>>, width |-> 0, height |-> 0]

NoFrame ==
    [pc |-> "idle", fontName |-> "", fontSize |-> 0, sawNil |-> FALSE,
     info |-> NoFont, err |-> "nil", ret |-> NoFont]

\* the arguments the callers use
LoadKeys ==
    {fontKey(n, 1) : n \in FontNames} \cup {fontKey(n, 2) : n \in {"a.ttf", "b.ttf"}}
ConcKeys == {fontKey("a.ttf", 1), fontKey("a.ttf", 2), fontKey("noface.ttf", 1)}

TextChars == {minASCII, minASCII + 1}
RECURSIVE SeqsUpTo(_, _)
SeqsUpTo(S, n) ==
    IF n = 0 THEN {<<>>}
    ELSE LET shorter == SeqsUpTo(S, n - 1)
         IN shorter \cup {Append(t, c) : t \in {u \in shorter : Len(u) = n - 1}, c \in S}
Texts == SeqsUpTo(TextChars, MaxStrLen)
Positions == {[X |-> 0, Y |-> 0], [X |-> 0 - 3, Y |-> 5]}
Aligns == {[V |-> v, H |-> h] : v \in {AlignAbove, AlignMiddle, AlignBelow},
                                h \in {AlignLeft, AlignCenter, AlignRight}}
\* the few text calls made between cache calls
FewTexts ==
    {<<>>, <<minASCII - 1>>, <<MaxASCII>>, <<MaxASCII - 1>>, <<minASCII + 1, minASCII>>,
     <<minASCII + 1, MaxASCII>>, <<minASCII - 1, minASCII>>, <<MaxASCII + 1>>}
FewPositions == {[X |-> 0, Y |-> 0]}
FewAligns == {[V |-> AlignBelow, H |-> AlignCenter]}

\* the disk of the cache runs: a space-like glyph, then ordinary ones
BasePattern == [i \in 1..PatLen |-> IF i = 1 THEN ShapeSpace ELSE ShapeNormal]

Init ==
    /\ disk = Disk(BasePattern)
    /\ fontMap = NilMap
    /\ dev = NoDevice
    /\ builds = [k \in AllKeys |-> 0]
    /\ first = [k \in AllKeys |-> NoFont]
    /\ ncalls = 0
    /\ call = NoCall
    /\ procs = [g \in Goroutines |-> NoFrame]
    /\ bo = NewBufferObject
    /\ gl = NoGL
    /\ res = NoResult

\* ---------------------------------------------- sequential operations
\* LoadFontTexture(fontName, fontSize), the whole call
LoadFontTexture(fontName, fontSize) ==
    /\ call.op = "none"
    /\ ncalls < MaxCalls
    /\ LET fm == CacheInit(fontMap)
           key == fontKey(fontName, fontSize)
           look == CacheLookup(fm, key)
           done(hit, err, ret, reads, glyphs) ==
               /\ call' = [NoCall EXCEPT !.op = "LoadFontTexture",
                                         !.fontName = fontName, !.fontSize = fontSize,
                                         !.hit = hit, !.err = err, !.ret = ret,
                                         !.reads = reads, !.glyphs = glyphs]
               /\ first' = IF err = "nil" /\ first[key] = NoFont
                           THEN [first EXCEPT ![key] = ret] ELSE first
       IN IF look.ok
          THEN /\ fontMap' = fm
               /\ UNCHANGED <<dev, builds>>
               /\ done(TRUE, "nil", look.val, 0, 0)
          ELSE \E b \in {BuildAtlas(disk, dev, fontName, fontSize)} :
                  /\ dev' = b.dev
                  /\ IF b.err # "nil"
                     THEN /\ fontMap' = fm
                          /\ UNCHANGED builds
                     ELSE /\ fontMap' = CacheStore(fm, key, b.info)
                          /\ builds' = [builds EXCEPT ![key] = @ + 1]
                  /\ done(FALSE, b.err, b.info, b.reads, b.glyphs)
    /\ ncalls' = ncalls + 1
    /\ UNCHANGED <<disk, procs, bo, gl, res>>

\* font.MapString(str, pos, align) on a FontInfo got from the cache
MapStringCall(strs, poss, aligns) ==
    /\ call.op = "none"
    /\ \E key \in DOMAIN fontMap.m, str \in strs, pos \in poss, align \in aligns :
          \E r \in {MapString(fontMap.m[key], str, pos, align)} :
              call' = [NoCall EXCEPT !.op = "MapString",
                                     !.fontName = key.fontName, !.fontSize = key.fontSize,
                                     !.str = str, !.pos = pos, !.align = align,
                                     !.ret = fontMap.m[key],
                                     !.panic = r.panic, !.buffer = r.buffer]
    /\ UNCHANGED <<disk, fontMap, dev, builds, first, ncalls, procs, bo, gl, res>>

\* font.CalcStringDims(str) on a FontInfo got from the cache
CalcStringDimsCall(strs) ==
    /\ call.op = "none"
    /\ \E key \in DOMAIN fontMap.m, str \in strs :
          \E r \in {CalcStringDims(fontMap.m[key], str)} :
              call' = [NoCall EXCEPT !.op = "CalcStringDims",
                                     !.fontName = key.fontName, !.fontSize = key.fontSize,
                                     !.str = str, !.ret = fontMap.m[key],
                                     !.panic = r.panic, !.width = r.width,
                                     !.height = r.height]
    /\ UNCHANGED <<disk, fontMap, dev, builds, first, ncalls, procs, bo, gl, res>>

\* the caller takes the results and goes on
Return ==
    /\ call.op # "none"
    /\ call' = NoCall
    /\ UNCHANGED <<disk, fontMap, dev, builds, first, ncalls, procs, bo, gl, res>>

LoadCall == \E key \in LoadKeys : LoadFontTexture(key.fontName, key.fontSize)
FewMapString == MapStringCall(FewTexts, FewPositions, FewAligns)
FewCalcStringDims == CalcStringDimsCall(FewTexts)

Next == LoadCall \/ FewMapString \/ FewCalcStringDims \/ Return

Spec == Init /\ [][Next]_vars

\* ------------------------------------ concurrent LoadFontTexture calls
\* Goroutines run LoadFontTexture with no synchronisation; a step is one
\* access to the shared fontMap or the build between two accesses.  (The
\* accesses themselves are taken as atomic: of the outcomes of the data
\* race on the map these are the ones in which no access is torn.)
Frame(g) == procs[g]
FrameKey(g) == fontKey(procs[g].fontName, procs[g].fontSize)

\* a goroutine calls LoadFontTexture(fontName, fontSize)
GoCall(g, fontName, fontSize) ==
    /\ Frame(g).pc = "idle"
    /\ ncalls < MaxCalls
    /\ ncalls' = ncalls + 1
    /\ procs' = [procs EXCEPT ![g] = [NoFrame EXCEPT !.pc = "nilcheck",
                                                     !.fontName = fontName,
                                                     !.fontSize = fontSize]]
    /\ UNCHANGED <<disk, fontMap, dev, builds, first, call, bo, gl, res>>

\* if fontMap == nil
GoNilCheck(g) ==
    /\ Frame(g).pc = "nilcheck"
    /\ procs' = [procs EXCEPT ![g].sawNil = fontMap.isNil,
                              ![g].pc = IF fontMap.isNil THEN "make" ELSE "lookup"]
    /\ UNCHANGED <<disk, fontMap, dev, builds, first, ncalls, call, bo, gl, res>>

\* fontMap = make(map[fontKey]FontInfo)
GoMake(g) ==
    /\ Frame(g).pc = "make"
    /\ fontMap' = CacheInit(NilMap)
    /\ procs' = [procs EXCEPT ![g].pc = "lookup"]
    /\ UNCHANGED <<disk, dev, builds, first, ncalls, call, bo, gl, res>>

\* if val, ok := fontMap[key]; ok { return &val, nil }
GoLookup(g) ==
    /\ Frame(g).pc = "lookup"
    /\ LET look == CacheLookup(fontMap, FrameKey(g))
       IN procs' = [procs EXCEPT ![g].pc = IF look.ok THEN "done" ELSE "build",
                                 ![g].ret = look.val]
    /\ UNCHANGED <<disk, fontMap, dev, builds, first, ncalls, call, bo, gl, res>>

\* the build, from the first ReadFile to the FontInfo literal
GoBuild(g) ==
    /\ Frame(g).pc = "build"
    /\ \E b \in {BuildAtlas(disk, dev, Frame(g).fontName, Frame(g).fontSize)} :
          /\ dev' = b.dev
          /\ builds' = IF b.err = "nil" THEN [builds EXCEPT ![FrameKey(g)] = @ + 1]
                       ELSE builds
          /\ procs' = [procs EXCEPT ![g].pc = IF b.err = "nil" THEN "store" ELSE "done",
                                    ![g].err = b.err,
                                    ![g].info = b.info]
    /\ UNCHANGED <<disk, fontMap, first, ncalls, call, bo, gl, res>>

\* fontMap[key] = InfoLoaded; return &InfoLoaded, nil
GoStore(g) ==
    /\ Frame(g).pc = "store"
    /\ fontMap' = CacheStore(fontMap, FrameKey(g), Frame(g).info)
    /\ procs' = [procs EXCEPT ![g].pc = "done", ![g].ret = Frame(g).info]
    /\ UNCHANGED <<disk, dev, builds, first, ncalls, call, bo, gl, res>>

\* the goroutine's caller takes the results
GoReturn(g) ==
    /\ Frame(g).pc = "done"
    /\ procs' = [procs EXCEPT ![g] = NoFrame]
    /\ UNCHANGED <<disk, fontMap, dev, builds, first, ncalls, call, bo, gl, res>>

GoCallAny == \E g \in Goroutines, key \in ConcKeys : GoCall(g, key.fontName, key.fontSize)
GoNilCheckAny == \E g \in Goroutines : GoNilCheck(g)
GoMakeAny == \E g \in Goroutines : GoMake(g)
GoLookupAny == \E g \in Goroutines : GoLookup(g)
GoBuildAny == \E g \in Goroutines : GoBuild(g)
GoStoreAny == \E g \in Goroutines : GoStore(g)
GoReturnAny == \E g \in Goroutines : GoReturn(g)

NextConc ==
    \/ GoCallAny
    \/ GoNilCheckAny
    \/ GoMakeAny
    \/ GoLookupAny
    \/ GoBuildAny
    \/ GoStoreAny
    \/ GoReturnAny

SpecConc == Init /\ [][NextConc]_vars

\* ------------------------------- atlases of every disk, and text calls
\* A caller that loads "a.ttf" at size 1 and "b.ttf" at size 2, each once,
\* and maps and measures texts with the atlases, over every disk of the
\* model.
AtlasKeys == {fontKey("a.ttf", 1), fontKey("b.ttf", 2)}

InitAtlas ==
    /\ disk \in {Disk(p) : p \in Patterns}
    /\ fontMap = NilMap
    /\ dev = NoDevice
    /\ builds = [k \in AllKeys |-> 0]
    /\ first = [k \in AllKeys |-> NoFont]
    /\ ncalls = 0
    /\ call = NoCall
    /\ procs = [g \in Goroutines |-> NoFrame]
    /\ bo = NewBufferObject
    /\ gl = NoGL
    /\ res = NoResult

AtlasLoad ==
    \E key \in AtlasKeys :
        /\ key \notin DOMAIN fontMap.m
        /\ LoadFontTexture(key.fontName, key.fontSize)

AnyMapString == MapStringCall(Texts, Positions, Aligns)
AnyCalcStringDims == CalcStringDimsCall(Texts)

NextAtlas == AtlasLoad \/ AnyMapString \/ AnyCalcStringDims \/ Return

SpecAtlas == InitAtlas /\ [][NextAtlas]_vars

\* ------------------------------------------- BufferObject operations
fontVars == <<disk, fontMap, dev, builds, first, ncalls, call, procs>>

\* the sizes, offsets and lengths the callers use, up to math.MaxUint32
StoreSizes == {U32Of(0), U32Of(8), U32(1, 0), MaxUint32}
Offsets == {U32Of(0), U32Of(4), U32Of(8), U32(Half - 1, Half - 4), MaxUint32}
SubSizes == {U32Of(0), U32Of(4), U32Of(8), U32Of(9), U32(1, 0), MaxUint32}

\* bo.BufferData(target, sizeBytes, ptr, usage)
BufferDataCall ==
    /\ \E target \in Targets, sizeBytes \in StoreSizes :
          \E r \in {BufferData(bo, gl, target, sizeBytes)} :
              /\ bo' = r.bo
              /\ gl' = r.gl
              /\ res' = [NoResult EXCEPT !.op = "BufferData", !.target = target,
                                         !.sizeBytes = sizeBytes, !.err = r.err,
                                         !.glcalls = r.glcalls]
    /\ UNCHANGED fontVars

\* bo.BufferSubData(target, offset, sizeBytes, ptr)
BufferSubDataCall ==
    /\ \E target \in Targets, offset \in Offsets, sizeBytes \in SubSizes :
          \E r \in {BufferSubData(bo, gl, target, offset, sizeBytes)} :
              /\ bo' = r.bo
              /\ gl' = r.gl
              /\ res' = [NoResult EXCEPT !.op = "BufferSubData", !.target = target,
                                         !.offset = offset, !.sizeBytes = sizeBytes,
                                         !.err = r.err, !.glcalls = r.glcalls]
    /\ UNCHANGED fontVars

NextBuffer == BufferDataCall \/ BufferSubDataCall

SpecBuffer == Init /\ [][NextBuffer]_vars

\* ------------------------------------------------ Program operations
\* the data slices the callers use: none, 1..4 values, and more
DataOf(n) == [i \in 1..n |-> i]
Datas == {DataOf(n) : n \in 0..MaxData}

\* the record of a Program call
UploadResult(op, p, uniformName, data, r) ==
    [NoResult EXCEPT !.op = op, !.program = p, !.uniformName = uniformName,
                     !.data = data, !.err = r.err, !.glcalls = r.glcalls]

\* p.UploadUniform(uniformName, data...)
UploadUniformCall ==
    /\ \E p \in Programs, uniformName \in UniformNames, data \in Datas :
          \E r \in {UploadUniform(gl, [id |-> p], uniformName, data)} :
              /\ gl' = r.gl
              /\ res' = UploadResult("UploadUniform", p, uniformName, data, r)
    /\ UNCHANGED <<fontVars, bo>>

\* p.UploadUniformi(uniformName, data...)
UploadUniformiCall ==
    /\ \E p \in Programs, uniformName \in UniformNames, data \in Datas :
          \E r \in {UploadUniformi(gl, [id |-> p], uniformName, data)} :
              /\ gl' = r.gl
              /\ res' = UploadResult("UploadUniformi", p, uniformName, data, r)
    /\ UNCHANGED <<fontVars, bo>>

\* p.UploadUniformui(uniformName, data...)
UploadUniformuiCall ==
    /\ \E p \in Programs, uniformName \in UniformNames, data \in Datas :
          \E r \in {UploadUniformui(gl, [id |-> p], uniformName, data)} :
              /\ gl' = r.gl
              /\ res' = UploadResult("UploadUniformui", p, uniformName, data, r)
    /\ UNCHANGED <<fontVars, bo>>

\* p.Bind()
BindCall ==
    /\ \E p \in Programs :
          /\ gl' = glUseProgram(gl, p)
          /\ res' = [NoResult EXCEPT !.op = "Bind", !.program = p,
                                     !.glcalls = <<"UseProgram">>]
    /\ UNCHANGED <<fontVars, bo>>

\* p.Unbind()
UnbindCall ==
    /\ \E p \in Programs :
          /\ gl' = glUseProgram(gl, 0)
          /\ res' = [NoResult EXCEPT !.op = "Unbind", !.program = p,
                                     !.glcalls = <<"UseProgram">>]
    /\ UNCHANGED <<fontVars, bo>>

NextProgram ==
    \/ UploadUniformCall
    \/ UploadUniformiCall
    \/ UploadUniformuiCall
    \/ BindCall
    \/ UnbindCall

SpecProgram == Init /\ [][NextProgram]_vars

\* =============================================================== claims
\* the atlases the cache holds
Atlases == {fontMap.m[k] : k \in DOMAIN fontMap.m}
\* the number of glyphs of the supported range 32..126
NumGlyphs == MaxASCII - minASCII
\* a non-empty text whose characters all lie in 32..126
ValidText(str) == Len(str) > 0 /\ \A i \in 1..Len(str) : str[i] \in minASCII..(MaxASCII - 1)
\* the glyph metrics an atlas holds for character code c
GlyphOf(font, c) == font.runeMap[c - minASCII + 1]
\* bearingX + width - advance of a glyph, when positive
Overflow(info) ==
    IF info.bearingX + ToFloat(info.width) - info.advance > 0
    THEN info.bearingX + ToFloat(info.width) - info.advance ELSE 0
\* the sum of the advances of characters 1..n of str
RECURSIVE SumAdvances(_, _, _)
SumAdvances(font, str, n) ==
    IF n = 0 THEN 0 ELSE SumAdvances(font, str, n - 1) + GlyphOf(font, str[n]).advance
\* the total width: the advances plus the last glyph's overflow
TotalWidth(font, str) ==
    SumAdvances(font, str, Len(str)) + Overflow(GlyphOf(font, str[Len(str)]))
\* the x components of a vertex buffer (every fourth value)
VertexXs(buffer) == {buffer[j] : j \in {i \in 1..Len(buffer) : i % 4 = 1}}
MinOf(S) == CHOOSE x \in S : \A y \in S : x <= y
MaxOf(S) == CHOOSE x \in S : \A y \in S : x >= y
\* a LoadFontTexture call has just returned / a text call has just returned
Loaded == call.op = "LoadFontTexture"
LoadedKey == fontKey(call.fontName, call.fontSize)
Mapped == call.op = "MapString" /\ ValidText(call.str)
Measured == call.op = "CalcStringDims" /\ ValidText(call.str)

\* C1: over sequential LoadFontTexture calls the build completes at most
\* once per (fontName, fontSize) key, and every successful call for a key
\* returns the glyph metrics and texture dimensions the first successful
\* call for that key returned.
C1_BuildOncePerKey ==
    /\ \A k \in AllKeys : builds[k] <= 1
    /\ (Loaded /\ call.err = "nil") =>
          /\ first[LoadedKey] # NoFont
          /\ call.ret.runeMap = first[LoadedKey].runeMap
          /\ call.ret.texture.width = first[LoadedKey].texture.width
          /\ call.ret.texture.height = first[LoadedKey].texture.height
\* a second call for a built key has returned its atlas
C1_Witness ==
    /\ Loaded /\ call.err = "nil" /\ call.reads = 0
    /\ builds[LoadedKey] = 1
    /\ Len(call.ret.runeMap) = NumGlyphs

\* C2: with LoadFontTexture calls for one key interleaved between the
\* cache lookup and the cache store, at most one build happens per key.
C2_OneBuildUnderConcurrency == \A k \in AllKeys : builds[k] <= 1

\* C3: a LoadFontTexture call that returns an error leaves the cache with
\* the keys and values it had before the call.
C3_ErrorLeavesCache ==
    [][(call.op = "none" /\ call'.op = "LoadFontTexture" /\ call'.err # "nil")
          => /\ fontMap'.m = fontMap.m
             /\ call'.ret = NoFont]_vars
\* a failed call has returned while the cache holds an atlas
C3_Witness == Loaded /\ call.err # "nil" /\ DOMAIN fontMap.m # {}

\* C4: a LoadFontTexture call for a key the cache holds returns the stored
\* atlas, reads no file, rasterizes no glyph, makes no device call and
\* leaves the cache unchanged.
C4_HitTouchesNothing ==
    [][(call.op = "none" /\ call'.op = "LoadFontTexture"
            /\ fontKey(call'.fontName, call'.fontSize) \in DOMAIN fontMap.m)
          => /\ call'.err = "nil"
             /\ call'.ret = fontMap.m[fontKey(call'.fontName, call'.fontSize)]
             /\ call'.reads = 0
             /\ call'.glyphs = 0
             /\ dev' = dev
             /\ fontMap' = fontMap]_vars
\* a call for a cached key has returned
C4_Witness == Loaded /\ call.hit /\ LoadedKey \in DOMAIN fontMap.m /\ dev.ops > 0

\* C5: in every built atlas, in the order of the character codes 32..126,
\* row[0] = 0 and row[i+1] = row[i] + height[i].
C5_RowsContiguous ==
    \A font \in Atlases :
        /\ Len(font.runeMap) = NumGlyphs
        /\ font.runeMap[1].row = 0
        /\ \A i \in 1..(NumGlyphs - 1) :
              font.runeMap[i + 1].row = font.runeMap[i].row + font.runeMap[i].height
\* an atlas with stacked rows is in the cache
C5_Witness == \E font \in Atlases : font.runeMap[NumGlyphs].row > 0

\* C6 as claimed: in every built atlas the rows are strictly increasing,
\* also across glyphs of zero rows.
C6_RowsStrictlyIncreasing ==
    \A font \in Atlases :
        \A i \in 1..(NumGlyphs - 1) : font.runeMap[i].row < font.runeMap[i + 1].row
\* C6 amended: in every built atlas the rows never decrease, and
\* row[i] < row[i+1] exactly when glyph i has at least one row.
C6_RowsIncreaseByHeight ==
    \A font \in Atlases :
        \A i \in 1..(NumGlyphs - 1) :
            /\ font.runeMap[i].row <= font.runeMap[i + 1].row
            /\ (font.runeMap[i].row < font.runeMap[i + 1].row) <=> (font.runeMap[i].height > 0)
\* an atlas holding a glyph of zero rows followed by one with rows
C6_Witness ==
    \E font \in Atlases :
        \E i \in 1..(NumGlyphs - 1) :
            font.runeMap[i].height = 0 /\ font.runeMap[i + 1].height > 0

\* C7: for a non-empty in-range text MapString returns 24 * len values,
\* six vertices of four components per character, the vertices of the
\* k-th character at positions 6k..6k+5.
C7_MeshSize ==
    Mapped =>
        /\ ~call.panic
        /\ Len(call.buffer) = 24 * Len(call.str)
        /\ \A k \in 0..(Len(call.str) - 1) :
              LET info == GlyphOf(call.ret, call.str[k + 1])
              IN \A v \in (6 * k)..(6 * k + 5) :
                    /\ call.buffer[4 * v + 3] \in {0, ToFloat(info.width)}
                    /\ call.buffer[4 * v + 4] \in
                           {ToFloat(info.row), ToFloat(info.row + info.height)}
\* a mesh of two different characters
C7_Witness ==
    /\ Mapped /\ ~call.panic /\ Len(call.str) >= 2
    /\ GlyphOf(call.ret, call.str[1]).row # GlyphOf(call.ret, call.str[2]).row

\* C8: for a non-empty in-range text CalcStringDims returns the sum of the
\* advances plus the last glyph's overflow, when positive, and the face's
\* line height; N equal characters of advance a without overflow give N * a.
C8_MeasuredWidth ==
    Measured =>
        /\ ~call.panic
        /\ call.width = SumAdvances(call.ret, call.str, Len(call.str))
                            + Overflow(GlyphOf(call.ret, call.str[Len(call.str)]))
        /\ call.height = call.ret.metrics.Height
        /\ ((\A i \in 1..Len(call.str) : call.str[i] = call.str[1])
                /\ Overflow(GlyphOf(call.ret, call.str[1])) = 0)
              => call.width = Len(call.str) * GlyphOf(call.ret, call.str[1]).advance
\* a measured text whose first glyph overflows and whose last overflows too
C8_Witness ==
    /\ Measured /\ ~call.panic /\ Len(call.str) >= 2
    /\ Overflow(GlyphOf(call.ret, call.str[1])) > 0
    /\ Overflow(GlyphOf(call.ret, call.str[Len(call.str)])) > 0
    /\ call.width > 0

\* the pen origin's x of a mesh: the first vertex's x less the first bearingX
PenX == call.buffer[1] - GlyphOf(call.ret, call.str[1]).bearingX
\* one pixel when the total width is odd
OddPixel(w) == IF (w \div FloatOne) % 2 = 1 THEN FloatOne ELSE 0

C10_PenStart ==
    Mapped =>
        LET halfWidth == TotalWidth(call.ret, call.str) \div 2
        IN PenX = ToFloat(call.pos.X) + ((0 - halfWidth) - call.align.H * halfWidth)

\* the pen origin's y of a mesh: the first vertex's y plus the first bearingY
PenY == call.buffer[2] + GlyphOf(call.ret, call.str[1]).bearingY
\* the least whole number not below f
CeilingOf(f) == ((f + (FloatOne - 1)) \div FloatOne) * FloatOne
\* the vertical offset of an atlas for a vertical alignment
ExpectedOffY(font, v) ==
    IF v = AlignBelow THEN 0 - CeilingOf(font.metrics.Ascent)
    ELSE IF v = AlignMiddle THEN 0 - (font.metrics.XHeight \div 2)
    ELSE CeilingOf(font.metrics.Descent)

\* C11: the pen origin's y is anchor.y + offy with offy = -ceiling(ascent)
\* for below, -xHeight/2 for middle and +ceiling(descent) for above
\* alignment, whatever the text and the horizontal alignment.
C11_VerticalOffset ==
    Mapped =>
        /\ ~call.panic
        /\ PenY = ToFloat(call.pos.Y) + ExpectedOffY(call.ret, call.align.V)
\* a mesh of two characters, aligned below and right, of an atlas whose
\* ascent is not a whole number, at an anchor off the x axis
C11_Witness ==
    /\ Mapped /\ ~call.panic /\ Len(call.str) = 2
    /\ call.align.V = AlignBelow /\ call.align.H = AlignRight
    /\ call.pos.Y # 0
    /\ call.ret.metrics.Ascent % FloatOne # 0

\* the vertex v (0-based) of a mesh: position and texture coordinates
VertexAt(buffer, v) ==
    [x |-> buffer[4 * v + 1], y |-> buffer[4 * v + 2],
     s |-> buffer[4 * v + 3], t |-> buffer[4 * v + 4]]

\* C12: the k-th character's six vertices are bottom-left, top-left,
\* top-right, bottom-left, top-right, bottom-right of the quad with
\* left = penX_k + bearingX, right = left + width,
\* top = originY + (height - bearingY), bottom = originY - bearingY,
\* penX_k the first pen x plus the advances of characters 0..k-1, and
\* texture coordinates (0,row), (width,row), (0,row+height),
\* (width,row+height).
C12_QuadVertices ==
    Mapped =>
        /\ ~call.panic
        /\ Len(call.buffer) = 24 * Len(call.str)
        /\ \A k \in 0..(Len(call.str) - 1) :
              LET info == GlyphOf(call.ret, call.str[k + 1])
                  originY == ToFloat(call.pos.Y) + ExpectedOffY(call.ret, call.align.V)
                  left == PenX + SumAdvances(call.ret, call.str, k) + info.bearingX
                  right == left + ToFloat(info.width)
                  top == originY + (ToFloat(info.height) - info.bearingY)
                  bottom == originY - info.bearingY
                  rowTop == ToFloat(info.row)
                  rowBottom == ToFloat(info.row + info.height)
                  BL == [x |-> left, y |-> bottom, s |-> 0, t |-> rowBottom]
                  TL == [x |-> left, y |-> top, s |-> 0, t |-> rowTop]
                  TR == [x |-> right, y |-> top, s |-> ToFloat(info.width), t |-> rowTop]
                  BR == [x |-> right, y |-> bottom, s |-> ToFloat(info.width),
                         t |-> rowBottom]
              IN /\ VertexAt(call.buffer, 6 * k) = BL
                 /\ VertexAt(call.buffer, 6 * k + 1) = TL
                 /\ VertexAt(call.buffer, 6 * k + 2) = TR
                 /\ VertexAt(call.buffer, 6 * k + 3) = BL
                 /\ VertexAt(call.buffer, 6 * k + 4) = TR
                 /\ VertexAt(call.buffer, 6 * k + 5) = BR
\* a mesh whose second character has ink, a bearing and a positive pen
\* advance before it
C12_Witness ==
    /\ Mapped /\ ~call.panic /\ Len(call.str) = 2
    /\ GlyphOf(call.ret, call.str[1]).advance > 0
    /\ GlyphOf(call.ret, call.str[2]).width > 0
    /\ GlyphOf(call.ret, call.str[2]).height > 0
    /\ GlyphOf(call.ret, call.str[2]).bearingX # 0
    /\ GlyphOf(call.ret, call.str[2]).row > 0

\* a text call has just returned or panicked
TextCall == call.op \in {"MapString", "CalcStringDims"}

\* C13: MapString and CalcStringDims called with the empty text, or with a
\* text holding a character code outside 32..126, panic (index out of
\* range): they return no vertices, no dimensions and no error value.
C13_InvalidTextPanics ==
    (TextCall /\ ~ValidText(call.str)) =>
        /\ call.panic
        /\ call.buffer = <<>>
        /\ call.width = 0 /\ call.height = 0
\* MapString has panicked on a text whose first character is in range and
\* whose second is code 127
C13_Witness ==
    /\ call.op = "MapString" /\ call.panic
    /\ Len(call.str) = 2 /\ call.str[1] \in minASCII..(MaxASCII - 1)
    /\ call.str[2] = MaxASCII
    /\ Len(call.ret.runeMap) = NumGlyphs

\* the texture ids the cache entries refer to
CachedTextures == {fontMap.m[k].texture.id : k \in DOMAIN fontMap.m}

\* C14: whenever no LoadFontTexture call is under way, every texture the
\* device holds is the texture of a cache entry; in particular a call that
\* has returned an error has left no texture behind.
C14_NoTextureLeak ==
    /\ \A id \in 1..Len(dev.textures) : id \in CachedTextures
    /\ (Loaded /\ call.err # "nil") => Len(dev.textures) = Cardinality(DOMAIN fontMap.m)

\* C15: over any sequence of LoadFontTexture, MapString and CalcStringDims
\* calls every key of the cache stays, with the atlas stored for it, and
\* the only key a step adds is the key of the LoadFontTexture call made.
C15_CacheOnlyGrows ==
    [][/\ \A k \in DOMAIN fontMap.m :
              k \in DOMAIN fontMap'.m /\ fontMap'.m[k] = fontMap.m[k]
       /\ \A k \in (DOMAIN fontMap'.m) \ (DOMAIN fontMap.m) :
              /\ call'.op = "LoadFontTexture"
              /\ k = fontKey(call'.fontName, call'.fontSize)]_vars
\* a build for a second key has been stored beside the first
C15_Witness ==
    /\ Loaded /\ ~call.hit /\ call.err = "nil"
    /\ Cardinality(DOMAIN fontMap.m) >= 2
    /\ LoadedKey \in DOMAIN fontMap.m

\* the gl calls a BufferObject / Program call made include the call named
Issued(r, name) == \E i \in 1..Len(r.glcalls) : r.glcalls[i] = name
\* the range [offset, offset + sizeBytes) lies inside a store of size bytes
InsideStore(offset, sizeBytes, size) == ~GtSum64(offset, sizeBytes, size)
UploadOps == {"UploadUniform", "UploadUniformi", "UploadUniformui"}

\* C16: BufferSubData writes to the device exactly when the whole range
\* [offset, offset + sizeBytes) lies inside the size recorded by the last
\* BufferData; otherwise it returns ErrOutOfBounds and issues no device
\* write; the recorded size is unchanged either way.  For all uint32
\* offset and sizeBytes, also those whose sum exceeds 2^32 - 1.
C16_SubDataInBounds ==
    [][(res'.op = "BufferSubData") =>
          /\ bo'.sizeBytes = bo.sizeBytes
          /\ IF InsideStore(res'.offset, res'.sizeBytes, bo.sizeBytes)
             THEN res'.err = "nil" /\ Issued(res', "BufferSubData")
             ELSE /\ res'.err = "ErrOutOfBounds"
                  /\ ~Issued(res', "BufferSubData")
                  /\ gl' = gl]_vars

\* C17: an UploadUniform, UploadUniformi or UploadUniformui call that
\* returns an error has uploaded no value and leaves the current program
\* as it was; a call that succeeds leaves no program current.
C17_UploadErrorKeepsBinding ==
    [][(res'.op \in UploadOps) =>
          IF res'.err # "nil"
          THEN /\ gl'.uniforms = gl.uniforms
               /\ ~Issued(res', "Uniform")
               /\ gl'.currentProgram = gl.currentProgram
          ELSE gl'.currentProgram = 0]_vars

====
